---- MODULE Spec2Model ----
(***************************************************************************)
(* A model of the concurrent analysis pipeline of mosaic: analyzeFiles,    *)
(* its three worker goroutines, its collector goroutine, and the pure      *)
(* functions openImage and calcAvg the workers call.                       *)
(*                                                                         *)
(* The three channels of analyzeFiles are unbuffered, so a send and the    *)
(* matching receive are one rendezvous step of the model.                  *)
(***************************************************************************)
EXTENDS Integers, Sequences, FiniteSets, TLC

\* ------------------------------------------------------------------ bounds

\* Longest input list made of the pipeline paths.
MaxFiles == 3

\* Longest input list made of any path of the file system.
MaxAnyFiles == 1

\* ------------------------------------------------------- program constants

\* maxjobs := 3
maxjobs == 3

Workers == 1 .. maxjobs

\* ------------------------------------------------------------ file system

\* A path is the sequence of its characters.
a_png       == <<"a", ".", "p", "n", "g">>
b_jpg       == <<"b", ".", "j", "p", "g">>
missing_png == <<"m", "i", "s", "s", "i", "n", "g", ".", "p", "n", "g">>
gone_jpg    == <<"g", "o", "n", "e", ".", "j", "p", "g">>
bad_png     == <<"b", "a", "d", ".", "p", "n", "g">>
bad_jpg     == <<"b", "a", "d", ".", "j", "p", "g">>
e_png       == <<"e", ".", "p", "n", "g">>
n_txt       == <<"n", ".", "t", "x", "t">>
p_PNG       == <<"p", ".", "P", "N", "G">>
gone_txt    == <<"g", "o", "n", "e", ".", "t", "x", "t">>

\* The paths the long input lists are drawn from.
PipePaths == {a_png, b_jpg, missing_png}

AllPaths == {a_png, b_jpg, missing_png, gone_jpg, bad_png, bad_jpg, e_png,
             n_txt, p_PNG, gone_txt}

\* An 8-bit opaque image: W x H pixels, row by row, each <<R, G, B>>.
Solid(w, h, c) == [W |-> w, H |-> h, Pix |-> [i \in 1 .. w * h |-> c]]

NoImage == [W |-> 0, H |-> 0, Pix |-> <<>>]

\* What os.Open and the decoders find at each path: whether the file can be
\* opened, the format its bytes are in, and the image those bytes hold.
FS ==
    (a_png :> [exists |-> TRUE, content |-> "png",
               img |-> Solid(2, 2, <<10, 20, 30>>)]) @@
    (b_jpg :> [exists |-> TRUE, content |-> "jpeg",
               img |-> Solid(1, 2, <<200, 100, 50>>)]) @@
    (missing_png :> [exists |-> FALSE, content |-> "none", img |-> NoImage]) @@
    (gone_jpg :> [exists |-> FALSE, content |-> "none", img |-> NoImage]) @@
    (bad_png :> [exists |-> TRUE, content |-> "junk", img |-> NoImage]) @@
    (bad_jpg :> [exists |-> TRUE, content |-> "png",
                 img |-> Solid(1, 1, <<1, 2, 3>>)]) @@
    (e_png :> [exists |-> TRUE, content |-> "png",
               img |-> [W |-> 2, H |-> 1,
                        Pix |-> <<(<<255, 0, 7>>), (<<254, 1, 8>>)>>]]) @@
    (n_txt :> [exists |-> TRUE, content |-> "junk", img |-> NoImage]) @@
    (p_PNG :> [exists |-> TRUE, content |-> "png",
               img |-> Solid(1, 1, <<9, 9, 9>>)]) @@
    (gone_txt :> [exists |-> FALSE, content |-> "none", img |-> NoImage])

\* --------------------------------------------------------- pure functions

\* strings.HasSuffix
HasSuffix(s, suffix) ==
    /\ Len(s) >= Len(suffix)
    /\ SubSeq(s, Len(s) - Len(suffix) + 1, Len(s)) = suffix

dot_png == <<".", "p", "n", "g">>
dot_jpg == <<".", "j", "p", "g">>

\* png.Decode / jpeg.Decode on the opened file: the image, or an error when
\* the bytes are not in the decoder's format.
Decode(format, file) ==
    IF file.content = format
    THEN [img |-> file.img, err |-> "nil"]
    ELSE [img |-> NoImage, err |-> "DecodeError"]

\* openImage with the suffix test made before the file is opened.
openImageSuffixFirst(ff) ==
    IF ~(HasSuffix(ff, dot_png) \/ HasSuffix(ff, dot_jpg))
    THEN [img |-> NoImage, err |-> "UnsupportedFormat"]
    ELSE IF ~FS[ff].exists
    THEN [img |-> NoImage, err |-> "IOError"]
    ELSE IF HasSuffix(ff, dot_png) THEN Decode("png", FS[ff])
    ELSE Decode("jpeg", FS[ff])

\* openImage: os.Open first, then the decoder the suffix selects.
openImage(ff) ==
    IF ~FS[ff].exists
    THEN [img |-> NoImage, err |-> "IOError"]
    ELSE IF HasSuffix(ff, dot_png) THEN Decode("png", FS[ff])
    ELSE IF HasSuffix(ff, dot_jpg) THEN Decode("jpeg", FS[ff])
    ELSE [img |-> NoImage, err |-> "UnsupportedFormat"]

\* img.Bounds()
Bounds(img) == [MinX |-> 0, MinY |-> 0, MaxX |-> img.W, MaxY |-> img.H]

\* img.At(x, y).RGBA() of an opaque 8-bit pixel: each channel v as the
\* 16-bit value v | v << 8.
At(img, x, y) ==
    LET p == img.Pix[y * img.W + x + 1]
    IN  <<p[1] * 257, p[2] * 257, p[3] * 257>>

RECURSIVE SumChannel(_, _, _)
SumChannel(img, pts, ch) ==
    IF pts = {} THEN 0
    ELSE LET pt == CHOOSE q \in pts : TRUE
         IN  At(img, pt[1], pt[2])[ch] + SumChannel(img, pts \ {pt}, ch)

\* calcAvg: the channel sums over the rectangle divided by the number of
\* pixels visited, each cut to uint16, alpha 0xFFFF.
calcAvg(img, rect) ==
    LET pts == (rect.MinX .. rect.MaxX - 1) \X (rect.MinY .. rect.MaxY - 1)
        iteration == Cardinality(pts)
        r == SumChannel(img, pts, 1)
        g == SumChannel(img, pts, 2)
        b == SumChannel(img, pts, 3)
    IN  [R |-> (r \div iteration) % 65536,
         G |-> (g \div iteration) % 65536,
         B |-> (b \div iteration) % 65536,
         A |-> 65535]

\* color.NRGBAModel.Convert(c) of an RGBA64 colour c. Its alpha is 0xffff
\* for every colour calcAvg returns, the case in which each channel is cut
\* to its high byte.
NRGBAConvert(c) ==
    IF c.A = 65535
    THEN [R |-> c.R \div 256, G |-> c.G \div 256, B |-> c.B \div 256, A |-> 255]
    ELSE IF c.A = 0
    THEN [R |-> 0, G |-> 0, B |-> 0, A |-> 0]
    ELSE [R |-> (((c.R * 65535) \div c.A) \div 256) % 256,
          G |-> (((c.G * 65535) \div c.A) \div 256) % 256,
          B |-> (((c.B * 65535) \div c.A) \div 256) % 256,
          A |-> c.A \div 256]

\* color.NRGBA.RGBA(): r = R | R << 8, then r * A / 0xff.
NRGBA_RGBA(c) ==
    <<(c.R * 257 * c.A) \div 255, (c.G * 257 * c.A) \div 255,
      (c.B * 257 * c.A) \div 255, c.A * 257>>

\* The zero value of imageInfo with Path set to name.
NewInfo(name) ==
    [Path |-> name, Red |-> 0, Green |-> 0, Blue |-> 0, Alpha |-> 0,
     err |-> "nil"]

\* The body of the worker's loop: the imageInfo built for one name.
workerInfo(name) ==
    LET o == openImage(name)
    IN  IF o.err # "nil" THEN [NewInfo(name) EXCEPT !.err = o.err]
        ELSE LET rgba == NRGBA_RGBA(NRGBAConvert(calcAvg(o.img, Bounds(o.img))))
             IN  [NewInfo(name) EXCEPT !.Red = rgba[1], !.Green = rgba[2],
                                       !.Blue = rgba[3]]

\* workerInfo of every path of the file system, computed once.
InfoTable == {<<p, workerInfo(p)>> : p \in AllPaths}

InfoOf(p) == (CHOOSE t \in InfoTable : t[1] = p)[2]

\* The collector counting one result more than there are files.
totalOffByOne(fs) == Len(fs) + 1

\* The number of results the collector receives: one per element of files
\* (for _ = range files).
total(fs) == Len(fs)

\* The collector appending every result, failed or not.
CollectAppendAll(c, out, i) ==
    IF i.err # "nil"
    THEN [cont |-> Append(c, i), stderrs |-> Append(out, i.err)]
    ELSE [cont |-> Append(c, i), stderrs |-> out]

\* The collector keeping the last success instead of appending it.
CollectOverwrite(c, out, i) ==
    IF i.err # "nil"
    THEN [cont |-> c, stderrs |-> Append(out, i.err)]
    ELSE [cont |-> <<i>>, stderrs |-> out]

\* The collector's loop body for one received result: a failure is printed,
\* a success is appended to the container (the "Processed file" lines are
\* one per entry of the container and are not kept apart from it).
Collect(c, out, i) ==
    IF i.err # "nil"
    THEN [cont |-> c, stderrs |-> Append(out, i.err)]
    ELSE [cont |-> Append(c, i), stderrs |-> out]

\* ------------------------------------------------------------------ state

VARIABLES
    files,          \* the argument of analyzeFiles
    fileChanClosed, \* whether close(fileChan) has run
    dpc,            \* where analyzeFiles itself is: "send", "close", "wait", "done"
    di,             \* the index of the next element the send loop sends
    wpc,            \* where each worker is: "range", "open", "send", "exit"
    path,           \* each worker's loop variable path
    info,           \* each worker's local info
    cpc,            \* where the collector is: "recv", "post", "exit"
    ci,             \* the iteration the collector's loop is in
    cont,           \* the collector's cont.Info
    stderrs,        \* the errors the collector has printed, in order
    allImageInfo,   \* what analyzeFiles received from doneChan
    held,           \* history: the index in files of the path each worker is
                    \* working on, 0 when it is working on none
    nrecv,          \* history: the number of receives of each element of files
    nsent,          \* history: the results each worker sent for the path it holds
    ncloses         \* history: the number of times fileChan was closed

vars == <<files, fileChanClosed, dpc, di, wpc, path, info, cpc, ci, cont,
          stderrs, allImageInfo, held, nrecv, nsent, ncloses>>

SeqsUpTo(S, n) == UNION {[1 .. k -> S] : k \in 0 .. n}

\* The input lists: filepath.Walk hands analyzeFiles any list of paths.
InputLists ==
    SeqsUpTo(PipePaths, MaxFiles) \cup SeqsUpTo(AllPaths, MaxAnyFiles)

\* The state when the workers and the collector have been spawned and the
\* send loop is about to start.
Init ==
    /\ files \in InputLists
    /\ fileChanClosed = FALSE
    /\ dpc = "send"
    /\ di = 1
    /\ wpc = [w \in Workers |-> "range"]
    /\ path = [w \in Workers |-> <<>>]
    /\ info = [w \in Workers |-> NewInfo(<<>>)]
    /\ cpc = "recv"
    /\ ci = 1
    /\ cont = <<>>
    /\ stderrs = <<>>
    /\ allImageInfo = <<>>
    /\ held = [w \in Workers |-> 0]
    /\ nrecv = [i \in 1 .. Len(files) |-> 0]
    /\ nsent = [w \in Workers |-> 0]
    /\ ncloses = 0

\* ---------------------------------------------------------------- actions

\* The send loop staying on the element it has just sent.
NextIndexStuck(i) == i

\* The index the send loop moves to after sending element i.
NextIndex(i) == i + 1

\* fileChan <- path, met by worker w's receive in "for path := range c".
SendPath(w) ==
    /\ dpc = "send"
    /\ di <= Len(files)
    /\ ~fileChanClosed
    /\ wpc[w] = "range"
    /\ path' = [path EXCEPT ![w] = files[di]]
    /\ wpc' = [wpc EXCEPT ![w] = "open"]
    /\ held' = [held EXCEPT ![w] = di]
    /\ nrecv' = [nrecv EXCEPT ![di] = @ + 1]
    /\ nsent' = [nsent EXCEPT ![w] = 0]
    /\ di' = NextIndex(di)
    /\ UNCHANGED <<files, fileChanClosed, dpc, info, cpc, ci, cont, stderrs,
                   allImageInfo, ncloses>>

\* The send loop ending one element early.
SendLoopOverEarly(i) == i >= Len(files)

\* Whether the send loop has run out of elements at index i.
SendLoopOver(i) == i > Len(files)

\* The send loop of analyzeFiles ends.
SendLoopEnd ==
    /\ dpc = "send"
    /\ SendLoopOver(di)
    /\ dpc' = "close"
    /\ UNCHANGED <<files, fileChanClosed, di, wpc, path, info, cpc, ci, cont,
                   stderrs, allImageInfo, held, nrecv, nsent, ncloses>>

\* analyzeFiles without close(fileChan).
CloseFileChanOmitted ==
    /\ dpc = "close"
    /\ dpc' = "wait"
    /\ UNCHANGED <<files, fileChanClosed, di, wpc, path, info, cpc, ci, cont,
                   stderrs, allImageInfo, held, nrecv, nsent, ncloses>>

\* close(fileChan)
CloseFileChan ==
    /\ dpc = "close"
    /\ ~fileChanClosed
    /\ fileChanClosed' = TRUE
    /\ ncloses' = ncloses + 1
    /\ dpc' = "wait"
    /\ UNCHANGED <<files, di, wpc, path, info, cpc, ci, cont, stderrs,
                   allImageInfo, held, nrecv, nsent>>

\* Where the worker goes after building the result for its path, with the
\* send skipped for a failed load.
AfterAnalyzeSkipFailed(i) == IF i.err # "nil" THEN "range" ELSE "send"

\* Where the worker goes after building the result for its path: always to
\* the send.
AfterAnalyze(i) == "send"

\* Worker w builds the imageInfo of the path it holds.
Analyze(w) ==
    /\ wpc[w] = "open"
    /\ info' = [info EXCEPT ![w] = InfoOf(path[w])]
    /\ wpc' = [wpc EXCEPT ![w] = AfterAnalyze(InfoOf(path[w]))]
    /\ UNCHANGED <<files, fileChanClosed, dpc, di, path, cpc, ci, cont,
                   stderrs, allImageInfo, held, nrecv, nsent, ncloses>>

\* result <- info, met by the collector's info := <-resultChan and followed
\* by the body of the collector's loop. The worker's info goes out of scope
\* with the end of its iteration.
SendResult(w) ==
    /\ wpc[w] = "send"
    /\ cpc = "recv"
    /\ ci <= total(files)
    /\ LET c == Collect(cont, stderrs, info[w])
       IN  /\ cont' = c.cont
           /\ stderrs' = c.stderrs
    /\ ci' = ci + 1
    /\ wpc' = [wpc EXCEPT ![w] = "range"]
    /\ info' = [info EXCEPT ![w] = NewInfo(<<>>)]
    /\ held' = [held EXCEPT ![w] = 0]
    /\ nsent' = [nsent EXCEPT ![w] = @ + 1]
    /\ UNCHANGED <<files, fileChanClosed, dpc, di, path, cpc, allImageInfo,
                   nrecv, ncloses>>

\* Worker w's range loop ends: fileChan is closed (and, unbuffered, empty).
WorkerExit(w) ==
    /\ wpc[w] = "range"
    /\ fileChanClosed
    /\ wpc' = [wpc EXCEPT ![w] = "exit"]
    /\ UNCHANGED <<files, fileChanClosed, dpc, di, path, info, cpc, ci, cont,
                   stderrs, allImageInfo, held, nrecv, nsent, ncloses>>

\* The collector's loop ends.
CollectLoopEnd ==
    /\ cpc = "recv"
    /\ ci > total(files)
    /\ cpc' = "post"
    /\ UNCHANGED <<files, fileChanClosed, dpc, di, wpc, path, info, ci, cont,
                   stderrs, allImageInfo, held, nrecv, nsent, ncloses>>

\* doneChan <- cont, met by allImageInfo := <-doneChan.
PostDone ==
    /\ cpc = "post"
    /\ dpc = "wait"
    /\ allImageInfo' = cont
    /\ cpc' = "exit"
    /\ dpc' = "done"
    /\ UNCHANGED <<files, fileChanClosed, di, wpc, path, info, ci, cont,
                   stderrs, held, nrecv, nsent, ncloses>>

Next ==
    \/ \E w \in Workers : SendPath(w)
    \/ SendLoopEnd
    \/ CloseFileChan
    \/ \E w \in Workers : Analyze(w)
    \/ \E w \in Workers : SendResult(w)
    \/ \E w \in Workers : WorkerExit(w)
    \/ CollectLoopEnd
    \/ PostDone

Spec == Init /\ [][Next]_vars

\* While some goroutine can take a step, some goroutine eventually takes
\* one. Every step moves a goroutine forward, so no behaviour loops.
Fairness == WF_vars(Next)

FairSpec == Spec /\ Fairness

\* ------------------------------------------------------------- properties

Recognised(p) == HasSuffix(p, dot_png) \/ HasSuffix(p, dot_jpg)

\* The file at p opens and its bytes are in the format its suffix names.
Loadable(p) ==
    /\ FS[p].exists
    /\ \/ HasSuffix(p, dot_png) /\ FS[p].content = "png"
       \/ HasSuffix(p, dot_jpg) /\ FS[p].content = "jpeg"

\* The indices of the paths that fail to load.
Failing == {i \in 1 .. Len(files) : ~Loadable(files[i])}

AllReceivedOnce == \A i \in 1 .. Len(files) : nrecv[i] = 1

AllExited == \A w \in Workers : wpc[w] = "exit"

C2_Accounting ==
    dpc = "done" =>
        /\ Len(allImageInfo) + Len(stderrs) = Len(files)
        /\ Len(stderrs) = Cardinality(Failing)
        /\ Len(allImageInfo) = Len(files) - Cardinality(Failing)

C2_Witness ==
    /\ dpc = "done"
    /\ Cardinality(Failing) >= 1
    /\ Len(allImageInfo) >= 2

\* C3: for every path a worker has received it sends exactly one result,
\* carrying that path, before it receives its next path: none is sent while
\* it still works on the path, and one has been sent when it is back at its
\* receive, whether the load succeeded or failed.
C3_OneResultPerPath ==
    \A w \in Workers :
        /\ nsent[w] \in {0, 1}
        /\ wpc[w] \in {"open", "send"} => nsent[w] = 0 /\ path[w] # <<>>
        /\ wpc[w] = "send" => info[w].Path = path[w]
        /\ wpc[w] \in {"range", "exit"} /\ path[w] # <<>> => nsent[w] = 1
        /\ path[w] = <<>> => nsent[w] = 0

C3_Witness ==
    \E w \in Workers :
        /\ wpc[w] = "range"
        /\ path[w] = missing_png
        /\ nsent[w] = 1
        /\ di <= Len(files)

\* C4: every element of the input list is received from the work queue
\* exactly once, no two workers work on the same element, and none is left
\* unreceived when the pipeline completes.
C4_EachPathOnce ==
    /\ \A i \in 1 .. Len(files) : nrecv[i] = (IF i < di THEN 1 ELSE 0)
    /\ \A w \in Workers :
        /\ held[w] # 0 <=> wpc[w] \in {"open", "send"}
        /\ held[w] # 0 => held[w] \in 1 .. Len(files) /\ path[w] = files[held[w]]
    /\ \A v, w \in Workers : v # w /\ held[v] # 0 => held[v] # held[w]
    /\ dpc = "done" => AllReceivedOnce

C4_Witness ==
    /\ dpc = "done"
    /\ Len(files) >= 2
    /\ files[1] = files[2]
    /\ AllReceivedOnce

\* C5: the work queue is closed exactly once, only after every path of the
\* input list has been sent and received; no path is sent after the close.
C5_ClosedOnceAfterAllSent ==
    /\ ncloses <= 1
    /\ fileChanClosed <=> ncloses = 1
    /\ fileChanClosed => di = Len(files) + 1 /\ AllReceivedOnce
    /\ dpc \in {"wait", "done"} <=> fileChanClosed

C5_Witness ==
    /\ fileChanClosed
    /\ dpc = "wait"
    /\ Len(files) >= 2
    /\ \E w \in Workers : wpc[w] = "open"

RECURSIVE SumPix(_, _, _)
SumPix(pix, n, ch) == IF n = 0 THEN 0 ELSE pix[n][ch] + SumPix(pix, n - 1, ch)

\* The mean of channel ch's 0-255 value over every pixel, cut to an integer.
Mean8(img, ch) == SumPix(img.Pix, Len(img.Pix), ch) \div Len(img.Pix)

\* C6: the red, green and blue values a worker records for a file each lie
\* within 0..255 and equal the integer-truncated mean of that channel's
\* 0-255 value over every pixel of the image.
C6_RecordedIsMean8 ==
    \A w \in Workers :
        wpc[w] = "send" /\ info[w].err = "nil" =>
            /\ info[w].Red \in 0 .. 255
            /\ info[w].Green \in 0 .. 255
            /\ info[w].Blue \in 0 .. 255
            /\ info[w].Red = Mean8(FS[path[w]].img, 1)
            /\ info[w].Green = Mean8(FS[path[w]].img, 2)
            /\ info[w].Blue = Mean8(FS[path[w]].img, 3)

\* C7 as written: a path with neither suffix always fails with
\* UnsupportedFormat, openable or not; IOError is for recognised-suffix paths
\* that cannot be opened, DecodeError for opened recognised-suffix files that
\* do not parse.
C7_UnsupportedWhateverOpens ==
    \A w \in Workers :
        wpc[w] = "send" =>
            /\ ~Recognised(path[w]) => info[w].err = "UnsupportedFormat"
            /\ info[w].err = "IOError" =>
                   Recognised(path[w]) /\ ~FS[path[w]].exists
            /\ info[w].err = "DecodeError" =>
                   Recognised(path[w]) /\ FS[path[w]].exists
                       /\ ~Loadable(path[w])

\* C7 amended: a path that cannot be opened fails with IOError whatever its
\* suffix; an opened path with neither suffix fails with UnsupportedFormat
\* whether or not its content would parse; an opened path with a recognised
\* suffix fails with DecodeError exactly when its content does not parse.
C7_OpenBeforeSuffix ==
    \A w \in Workers :
        wpc[w] = "send" =>
            info[w].err =
                IF ~FS[path[w]].exists THEN "IOError"
                ELSE IF ~Recognised(path[w]) THEN "UnsupportedFormat"
                ELSE IF ~Loadable(path[w]) THEN "DecodeError"
                ELSE "nil"

C7_Witness ==
    \E w \in Workers :
        /\ wpc[w] = "send"
        /\ ~Recognised(path[w])
        /\ FS[path[w]].exists
        /\ FS[path[w]].content = "png"
        /\ info[w].err = "UnsupportedFormat"

\* The (path, colour) pairs of a report.
Pairs(report) ==
    {<<report[k].Path, report[k].Red, report[k].Green, report[k].Blue>> :
        k \in 1 .. Len(report)}

\* The (path, colour) pairs of the files of the list, whoever analyzes them.
PairsOfFiles ==
    {<<files[i], InfoOf(files[i]).Red, InfoOf(files[i]).Green,
       InfoOf(files[i]).Blue>> : i \in 1 .. Len(files)}

\* C8: for a list of valid image paths the set of (path, colour) pairs of the
\* final report is fixed by the list alone, whichever worker took which path
\* and in whatever order the results arrived; only the order may differ.
C8_ReportFixedByInput ==
    dpc = "done" /\ Failing = {} =>
        /\ Pairs(allImageInfo) = PairsOfFiles
        /\ Len(allImageInfo) = Len(files)

C8_Witness ==
    /\ dpc = "done"
    /\ Failing = {}
    /\ Len(files) >= 2
    /\ allImageInfo[1].Path # files[1]

\* C9: with an empty input list no worker receives a path, the collector
\* receives nothing and hands over an empty report, no failure is printed,
\* and the close of the work queue and the receive of the report complete.
C9_EmptyList ==
    /\ [](files = <<>> =>
            /\ \A w \in Workers : path[w] = <<>> /\ wpc[w] \in {"range", "exit"}
            /\ ci = 1
            /\ cont = <<>>
            /\ stderrs = <<>>
            /\ allImageInfo = <<>>)
    /\ (files = <<>>) ~> (fileChanClosed /\ dpc = "done" /\ cpc = "exit")

C9_Witness ==
    /\ files = <<>>
    /\ dpc = "done"
    /\ cpc = "exit"
    /\ allImageInfo = <<>>

====
